---- MODULE Spec2Model ----
(***************************************************************************)
(* Model of paxg_telegram_bot.py: the module-level configuration check,    *)
(* the Price Fetcher (get_paxg_price), the Message Formatter               *)
(* (format_message), the Publisher (send_telegram_message) and the Update  *)
(* Loop (main).                                                            *)
(*                                                                         *)
(* Numbers that come from the upstream JSON are modelled as integers k     *)
(* standing for the value k / Den.  Den is a power of two, so every such   *)
(* value is an exact binary float and Python's '.2f' / '.0f' formatting is *)
(* round-half-even of the exact value.                                     *)
(***************************************************************************)
EXTENDS Integers, Sequences, FiniteSets, TLC

\* ---------------------------------------------------------------- bounds
\* number of loop iterations explored
MaxIter == 3

\* ------------------------------------------------------ program constants
INTERVAL == 300
RetryDelay == 60
Den == 2^8

\* ---------------------------------------------------------- JSON values
Null == [t |-> "null", v |-> 0]
Str == [t |-> "str", v |-> 0]
Num(k) == [t |-> "num", v |-> k]
IsNum(j) == j.t = "num"

\* Python None as returned by get_paxg_price and os.environ.get
None == [t |-> "None"]

\* ------------------------------------------------------ upstream inputs
PriceVals == {Num(678528), Null}
ChangeVals == {Num(-315), Num(-1), Num(0), Num(32), Num(96), Null, Str}
CapVals == {Num(316049280), Null}

\* the JSON objects the quote API may put under the asset key: every
\* subset of the three fields, each present field with any of its values
AssetObjs ==
  UNION { { [k \in ks |-> IF k = "usd" THEN p
                          ELSE IF k = "usd_24h_change" THEN c ELSE m] :
              p \in PriceVals, c \in ChangeVals, m \in CapVals } :
          ks \in SUBSET {"usd", "usd_24h_change", "usd_market_cap"} }

\* response bodies: an object without the asset key, or with it
Bodies ==
  { [k \in {} |-> Null] } \cup { [k \in {"pax-gold"} |-> a] : a \in AssetObjs }

\* outcomes of requests.get(...): a raised transport error, a non-success
\* status, a body that is not JSON, or a JSON body
Responses ==
  { [status |-> s, data |-> [k \in {} |-> Null]] :
      s \in {"timeout", "conn_error", "http_error", "bad_json"} }
  \cup { [status |-> "ok", data |-> d] : d \in Bodies }

NoResponse == [status |-> "none", data |-> [k \in {} |-> Null]]

\* outcomes of requests.post(...)
PostOutcomes == {"ok", "timeout", "http_error"}

\* environment values of BOT_TOKEN / CHANNEL_ID: unset, empty, or set
EnvVals == {"<unset>", "", "set"}

\* host time-zone offsets from UTC, in hours
TzOffsets == {-5, 0, 3}

\* UTC clock (seconds) at process start: day 2, 23:58:00
StartTime == 1 * 86400 + 23 * 3600 + 58 * 60

VARIABLES BOT_TOKEN, CHANNEL_ID, tz, now, pc, iter, response, price_data,
          message, sent, sendOk, calls, log, fetches, posts, sleeps,
          prevGap, outcome, prevOutcome, intrAt

vars == <<BOT_TOKEN, CHANNEL_ID, tz, now, pc, iter, response, price_data,
          message, sent, sendOk, calls, log, fetches, posts, sleeps,
          prevGap, outcome, prevOutcome, intrAt>>

\* ------------------------------------------------------------- Fetcher
\* dict.get(key, 0)
Get(obj, key) == IF key \in DOMAIN obj THEN obj[key] ELSE Num(0)

get_paxg_price_DefaultOnFailure(resp) ==
  IF resp.status # "ok" THEN
    [t |-> "dict", price |-> Num(0), change_24h |-> Num(0),
     market_cap |-> Num(0)]
  ELSE IF "pax-gold" \notin DOMAIN resp.data THEN None
  ELSE IF "usd" \notin DOMAIN resp.data["pax-gold"] THEN None
  ELSE [t |-> "dict",
        price |-> resp.data["pax-gold"]["usd"],
        change_24h |-> Get(resp.data["pax-gold"], "usd_24h_change"),
        market_cap |-> Get(resp.data["pax-gold"], "usd_market_cap")]

\* get_paxg_price() on the outcome resp of the quote request: any raised
\* exception (transport, status, JSON, KeyError) gives None
get_paxg_price(resp) ==
  IF resp.status # "ok" THEN None
  ELSE IF "pax-gold" \notin DOMAIN resp.data THEN None
  ELSE IF "usd" \notin DOMAIN resp.data["pax-gold"] THEN None
  ELSE [t |-> "dict",
        price |-> resp.data["pax-gold"]["usd"],
        change_24h |-> Get(resp.data["pax-gold"], "usd_24h_change"),
        market_cap |-> Get(resp.data["pax-gold"], "usd_market_cap")]

\* ----------------------------------------------------------- Formatter
DigitChar == <<"0", "1", "2", "3", "4", "5", "6", "7", "8", "9">>

RECURSIVE Digits(_)
\* decimal digits of a natural number, most significant first
Digits(n) ==
  IF n < 10 THEN <<DigitChar[n + 1]>>
  ELSE Digits(n \div 10) \o <<DigitChar[(n % 10) + 1]>>

RECURSIVE Pad(_, _)
\* zero-padding on the left to width w
Pad(ds, w) == IF Len(ds) >= w THEN ds ELSE Pad(<<"0">> \o ds, w)

RECURSIVE Group(_)
\* the ',' option of the format mini-language: thousands separators
Group(ds) ==
  IF Len(ds) <= 3 THEN ds
  ELSE Group(SubSeq(ds, 1, Len(ds) - 3)) \o <<",">>
       \o SubSeq(ds, Len(ds) - 2, Len(ds))

\* num / den rounded to the nearest integer, ties to even (num >= 0)
RoundHalfEven(num, den) ==
  LET q == num \div den
      r == num % den
  IN  IF 2 * r < den THEN q
      ELSE IF 2 * r > den THEN q + 1
      ELSE IF q % 2 = 0 THEN q ELSE q + 1

Abs(k) == IF k < 0 THEN -k ELSE k

\* format(k / Den, ',.<decimals>f') when comma, '.<decimals>f' otherwise
FormatFixed(k, decimals, comma) ==
  LET scale == 10 ^ decimals
      scaled == RoundHalfEven(Abs(k) * scale, Den)
      ip == Digits(scaled \div scale)
      fp == Pad(Digits(scaled % scale), decimals)
  IN  (IF k < 0 THEN <<"-">> ELSE <<>>)
      \o (IF comma THEN Group(ip) ELSE ip)
      \o (IF decimals > 0 THEN <<".">> \o fp ELSE <<>>)

\* datetime.now(): the naive local wall-clock time of the host
LocalNow(utc, offset) == utc + offset * 3600

\* strftime('%Y-%m-%d %H:%M:%S UTC') of a naive datetime given as seconds
\* since 1970-01-01 00:00:00 (days within January 1970)
Strftime(secs) ==
  LET day == (secs \div 86400) + 1
      hh == (secs % 86400) \div 3600
      mm == (secs % 3600) \div 60
      ss == secs % 60
  IN  <<"1", "9", "7", "0", "-", "0", "1", "-">> \o Pad(Digits(day), 2)
      \o <<" ">> \o Pad(Digits(hh), 2) \o <<":">> \o Pad(Digits(mm), 2)
      \o <<":">> \o Pad(Digits(ss), 2) \o <<" ", "U", "T", "C">>

\* the text returned for an absent Quote, as a sequence of lines
FailureNotice == << <<"CROSS", " ", "Unable to fetch PAXG price">> >>

\* TRUE when format_message raises (TypeError / ValueError): the comparison
\* change >= 0 or one of the numeric format specs meets a non-number
FormatRaises(pd) ==
  /\ pd # None
  /\ \/ ~IsNum(pd.change_24h)
     \/ ~IsNum(pd.price)
     \/ ~IsNum(pd.market_cap)

format_message_StrictTrend(pd, utc, offset) ==
  IF pd = None THEN FailureNotice
  ELSE
    LET change == pd.change_24h.v
        trend == IF change > 0 THEN "CHART_UP" ELSE "CHART_DOWN"
        change_sign == IF change >= 0 THEN <<"+">> ELSE <<>>
    IN  << <<>>,
           <<"COIN", " ", "*PAXG Price Update*">>,
           <<>>,
           <<"MONEYBAG", " ", "Price: ", "$">>
             \o FormatFixed(pd.price.v, 2, TRUE),
           <<trend, " ", "24h Change: ">> \o change_sign
             \o FormatFixed(change, 2, FALSE) \o <<"%">>,
           <<"BAR_CHART", " ", "Market Cap: ", "$">>
             \o FormatFixed(pd.market_cap.v, 0, TRUE),
           <<>>,
           <<"CLOCK", " ", "Updated: ">> \o Strftime(LocalNow(utc, offset)),
           <<>> >>

\* format_message(price_data) evaluated when the UTC clock reads utc on a
\* host whose zone is offset hours from UTC; the result is the sequence of
\* the lines of the returned string
format_message(pd, utc, offset) ==
  IF pd = None THEN FailureNotice
  ELSE
    LET change == pd.change_24h.v
        trend == IF change >= 0 THEN "CHART_UP" ELSE "CHART_DOWN"
        change_sign == IF change >= 0 THEN <<"+">> ELSE <<>>
    IN  << <<>>,
           <<"COIN", " ", "*PAXG Price Update*">>,
           <<>>,
           <<"MONEYBAG", " ", "Price: ", "$">>
             \o FormatFixed(pd.price.v, 2, TRUE),
           <<trend, " ", "24h Change: ">> \o change_sign
             \o FormatFixed(change, 2, FALSE) \o <<"%">>,
           <<"BAR_CHART", " ", "Market Cap: ", "$">>
             \o FormatFixed(pd.market_cap.v, 0, TRUE),
           <<>>,
           <<"CLOCK", " ", "Updated: ">> \o Strftime(LocalNow(utc, offset)),
           <<>> >>

\* ------------------------------------------------- configuration check
\* truthiness of os.environ.get(...): None and '' are falsy
Truthy(v) == v # "<unset>" /\ v # ""

ConfigMissing_BothOnly(tok, ch) == ~Truthy(tok) /\ ~Truthy(ch)

\* the condition of the module-level 'if' that raises ValueError
ConfigMissing(tok, ch) == ~Truthy(tok) \/ ~Truthy(ch)

\* ------------------------------------------------------ exception flow
\* where an exception raised at control point p is raised relative to the
\* try statement of main: in its body, in one of its handlers, or outside
Where(p) ==
  IF p \in {"fetch", "format", "publish", "sleep"} THEN "body"
  ELSE IF p = "retry" THEN "handler"
  ELSE "outside"

Handle_NoCatchAll(exc, where) ==
  IF where = "body" /\ exc = "KeyboardInterrupt" THEN "stopped"
  ELSE "crashed"

Handle_ContinueOnInterrupt(exc, where) ==
  IF where = "body" /\ exc = "KeyboardInterrupt" THEN "fetch"
  ELSE IF where = "body" /\ exc = "Exception" THEN "retry"
  ELSE "crashed"

Handle_FullWaitOnError(exc, where) ==
  IF where = "body" /\ exc = "KeyboardInterrupt" THEN "stopped"
  ELSE IF where = "body" /\ exc = "Exception" THEN "sleep"
  ELSE "crashed"

\* the control point reached when exc is raised: 'except KeyboardInterrupt'
\* breaks out of the loop, 'except Exception' enters the retry delay, and an
\* exception raised outside the try body is caught by neither clause
Handle(exc, where) ==
  IF where = "body" /\ exc = "KeyboardInterrupt" THEN "stopped"
  ELSE IF where = "body" /\ exc = "Exception" THEN "retry"
  ELSE "crashed"

\* -------------------------------------------------------------- state
Init ==
  /\ BOT_TOKEN \in EnvVals
  /\ CHANNEL_ID \in EnvVals
  /\ tz \in TzOffsets
  /\ now = StartTime
  /\ pc = "config"
  /\ iter = 0
  /\ response = NoResponse
  /\ price_data = None
  /\ message = <<>>
  /\ sent = <<>>
  /\ sendOk = FALSE
  /\ calls = <<>>
  /\ log = <<>>
  /\ fetches = 0
  /\ posts = 0
  /\ sleeps = <<>>
  /\ prevGap = <<>>
  /\ outcome = "none"
  /\ prevOutcome = "none"
  /\ intrAt = "none"

\* module level: the check of BOT_TOKEN and CHANNEL_ID
Startup ==
  /\ pc = "config"
  /\ pc' = IF ConfigMissing(BOT_TOKEN, CHANNEL_ID) THEN "config_error"
           ELSE "start"
  /\ UNCHANGED <<BOT_TOKEN, CHANNEL_ID, tz, now, iter, response, price_data,
                 message, sent, sendOk, calls, log, fetches, posts, sleeps,
                 prevGap, outcome, prevOutcome, intrAt>>

\* main: the two start-up prints, then the loop is entered
Banner ==
  /\ pc = "start"
  /\ pc' = "fetch"
  /\ log' = <<"started">>
  /\ UNCHANGED <<BOT_TOKEN, CHANNEL_ID, tz, now, iter, response, price_data,
                 message, sent, sendOk, calls, fetches, posts, sleeps,
                 prevGap, outcome, prevOutcome, intrAt>>

\* an iteration starts: price_data = get_paxg_price()
Fetch ==
  /\ pc = "fetch"
  /\ iter < MaxIter
  /\ \E resp \in Responses :
       /\ response' = resp
       /\ price_data' = get_paxg_price(resp)
       /\ log' = IF get_paxg_price(resp) = None THEN <<"fetch_error">>
                 ELSE <<>>
  /\ iter' = iter + 1
  /\ fetches' = fetches + 1
  /\ calls' = <<"fetch">>
  /\ prevGap' = sleeps
  /\ sleeps' = <<>>
  /\ prevOutcome' = outcome
  /\ outcome' = "running"
  /\ pc' = "format"
  /\ UNCHANGED <<BOT_TOKEN, CHANNEL_ID, tz, now, message, sent, sendOk,
                 posts, intrAt>>

\* message = format_message(price_data)
Format ==
  /\ pc = "format"
  /\ calls' = Append(calls, "format")
  /\ IF FormatRaises(price_data)
       THEN /\ pc' = Handle("Exception", Where(pc))
            /\ log' = Append(log, "unexpected_error")
            /\ outcome' = "raised"
            /\ UNCHANGED message
       ELSE /\ pc' = "publish"
            /\ message' = format_message(price_data, now, tz)
            /\ UNCHANGED <<log, outcome>>
  /\ UNCHANGED <<BOT_TOKEN, CHANNEL_ID, tz, now, iter, response, price_data,
                 sent, sendOk, fetches, posts, sleeps, prevGap, prevOutcome,
                 intrAt>>

\* send_telegram_message(message), then the 'Waiting' print
Publish ==
  /\ pc = "publish"
  /\ \E o \in PostOutcomes :
       /\ sendOk' = (o = "ok")
       /\ log' = log \o <<IF o = "ok" THEN "sent" ELSE "send_error",
                          "waiting">>
  /\ sent' = message
  /\ posts' = posts + 1
  /\ calls' = Append(calls, "publish")
  /\ outcome' = "completed"
  /\ pc' = "sleep"
  /\ UNCHANGED <<BOT_TOKEN, CHANNEL_ID, tz, now, iter, response, price_data,
                 message, fetches, sleeps, prevGap, prevOutcome, intrAt>>

\* time.sleep(INTERVAL) returns
IntervalWake ==
  /\ pc = "sleep"
  /\ now' = now + INTERVAL
  /\ sleeps' = Append(sleeps, INTERVAL)
  /\ pc' = "fetch"
  /\ UNCHANGED <<BOT_TOKEN, CHANNEL_ID, tz, iter, response, price_data,
                 message, sent, sendOk, calls, log, fetches, posts, prevGap,
                 outcome, prevOutcome, intrAt>>

\* time.sleep(60) in the 'except Exception' handler returns
RetryWake ==
  /\ pc = "retry"
  /\ now' = now + RetryDelay
  /\ sleeps' = Append(sleeps, RetryDelay)
  /\ pc' = "fetch"
  /\ UNCHANGED <<BOT_TOKEN, CHANNEL_ID, tz, iter, response, price_data,
                 message, sent, sendOk, calls, log, fetches, posts, prevGap,
                 outcome, prevOutcome, intrAt>>

\* a manual interrupt: KeyboardInterrupt is raised at the current point
Interrupt ==
  /\ pc \in {"start", "fetch", "format", "publish", "sleep", "retry"}
  /\ intrAt = "none"
  /\ intrAt' = pc
  /\ pc' = Handle("KeyboardInterrupt", Where(pc))
  /\ log' = IF Handle("KeyboardInterrupt", Where(pc)) = "stopped"
            THEN Append(log, "stopped_by_user") ELSE log
  /\ UNCHANGED <<BOT_TOKEN, CHANNEL_ID, tz, now, iter, response, price_data,
                 message, sent, sendOk, calls, fetches, posts, sleeps,
                 prevGap, outcome, prevOutcome>>

Next ==
  \/ Startup
  \/ Banner
  \/ Fetch
  \/ Format
  \/ Publish
  \/ IntervalWake
  \/ RetryWake
  \/ Interrupt

Spec == Init /\ [][Next]_vars

\* the loop of main is Running while control is inside the while statement
LoopRunning == pc \in {"fetch", "format", "publish", "sleep", "retry"}

\* the quote request failed: transport error, non-success status, a body
\* that is not JSON, or a body without the asset key or the price key
RequestFailed(resp) ==
  \/ resp.status \in {"timeout", "conn_error", "http_error", "bad_json"}
  \/ /\ resp.status = "ok"
     /\ \/ "pax-gold" \notin DOMAIN resp.data
        \/ "usd" \notin DOMAIN resp.data["pax-gold"]

TypeOK ==
  /\ pc \in {"config", "config_error", "start", "fetch", "format",
             "publish", "sleep", "retry", "stopped", "crashed"}
  /\ iter \in 0..MaxIter
  /\ fetches \in 0..MaxIter
  /\ posts \in 0..MaxIter
  /\ response \in Responses \cup {NoResponse}

Range(q) == {q[i] : i \in 1..Len(q)}

\* ------------------------------------------------------------- claims

\* C1: every iteration that reaches a suspension (the interval sleep or the
\* retry delay) has invoked the Fetcher, the Formatter and then the
\* Publisher exactly once, whatever the Fetcher returned.
C1_PublishInEveryIteration ==
  pc \in {"sleep", "retry"} => calls = <<"fetch", "format", "publish">>

\* C2: when the quote request fails the Fetcher returns None, the Publisher
\* is invoked in that iteration with exactly the failure notice, and the
\* iteration goes on to the interval sleep (never to the retry delay)
\* whether the post succeeded or not.
C2_FailedFetchPublishesNotice ==
  (iter >= 1 /\ RequestFailed(response)) =>
     /\ price_data = None
     /\ outcome # "raised"
     /\ pc # "retry"
     /\ pc = "publish" => message = FailureNotice
     /\ pc = "sleep" =>
          /\ sent = FailureNotice
          /\ calls = <<"fetch", "format", "publish">>
          /\ outcome = "completed"
     /\ pc = "fetch" => (sent = FailureNotice /\ sleeps = <<INTERVAL>>)

C2_Witness ==
  /\ pc = "sleep"
  /\ iter = 2
  /\ response.status = "timeout"
  /\ sent = FailureNotice
  /\ ~sendOk
  /\ posts = 2

\* C3: the loop leaves Running only by a step that delivers a manual
\* interrupt; an exception escaping the body is logged and leads to the
\* retry delay, and the retry delay ends in the start of another iteration.
C3_Step ==
  /\ (LoopRunning /\ ~LoopRunning') => (intrAt = "none" /\ intrAt' # "none")
  /\ (pc = "format" /\ FormatRaises(price_data) /\ intrAt' = intrAt) =>
        /\ pc' = "retry"
        /\ log'[Len(log')] = "unexpected_error"
  /\ (pc = "retry" /\ intrAt' = intrAt) =>
        /\ pc' = "fetch"
        /\ now' = now + RetryDelay

C3_OnlyInterruptStopsLoop == [][C3_Step]_vars

C3_Witness ==
  /\ pc = "format"
  /\ iter = 2
  /\ prevOutcome = "raised"
  /\ prevGap = <<RetryDelay>>

\* C4: a manual interrupt delivered at any point of the cycle (fetch,
\* format, publish, interval sleep, retry delay) ends in Stopped with the
\* shutdown notice logged; it never escapes main.
C4_InterruptExitsCleanly ==
  intrAt \in {"fetch", "format", "publish", "sleep", "retry"} =>
     /\ pc = "stopped"
     /\ "stopped_by_user" \in Range(log)

\* C5: after an interrupt delivered during the interval sleep the loop is
\* Stopped and no step ever performs a fetch or a publish again.
C5_NoNetworkAfterInterruptInSleep ==
  /\ [](intrAt = "sleep" => pc = "stopped")
  /\ [][intrAt = "sleep" => (fetches' = fetches /\ posts' = posts)]_vars

C5_Witness ==
  /\ intrAt = "sleep"
  /\ pc = "stopped"
  /\ fetches = 1
  /\ posts = 1

\* C6: with BOT_TOKEN or CHANNEL_ID unset or empty the process ends in the
\* configuration error and never reaches main: no iteration, no fetch, no
\* publish.
C6_MissingConfigNeverRuns ==
  (BOT_TOKEN \in {"<unset>", ""} \/ CHANNEL_ID \in {"<unset>", ""}) =>
     /\ pc \in {"config", "config_error"}
     /\ iter = 0
     /\ fetches = 0
     /\ posts = 0

C6_Witness ==
  /\ pc = "config_error"
  /\ BOT_TOKEN = "set"
  /\ CHANNEL_ID = ""

\* C7: what the Fetcher hands to the Formatter is None exactly when the
\* asset key or the price is missing or the request failed, and otherwise a
\* valid Quote: three numeric fields, the upstream values where present and
\* zero where change or market cap was omitted.
C7_QuoteFullOrAbsent ==
  pc = "format" =>
     IF RequestFailed(response) THEN price_data = None
     ELSE /\ price_data # None
          /\ price_data.price = response.data["pax-gold"]["usd"]
          /\ price_data.change_24h =
               (IF "usd_24h_change" \in DOMAIN response.data["pax-gold"]
                THEN response.data["pax-gold"]["usd_24h_change"] ELSE Num(0))
          /\ price_data.market_cap =
               (IF "usd_market_cap" \in DOMAIN response.data["pax-gold"]
                THEN response.data["pax-gold"]["usd_market_cap"] ELSE Num(0))
          /\ IsNum(price_data.price)
          /\ IsNum(price_data.change_24h)
          /\ IsNum(price_data.market_cap)

\* C8: in a formatted Quote the change line carries '+' and the upward
\* indicator when change_24h >= 0, and no '+' and the downward indicator
\* when change_24h < 0.
C8_SignAndTrendAgree ==
  (pc = "publish" /\ price_data # None) =>
     /\ price_data.change_24h.v >= 0 =>
          (message[5][1] = "CHART_UP" /\ message[5][4] = "+")
     /\ price_data.change_24h.v < 0 =>
          (message[5][1] = "CHART_DOWN" /\ message[5][4] = "-")

C8_Witness ==
  /\ pc = "publish"
  /\ price_data # None
  /\ price_data.change_24h = Num(0)
  /\ "usd_24h_change" \in DOMAIN response.data["pax-gold"]
  /\ message[5] = <<"CHART_UP", " ", "24h Change: ", "+", "0", ".", "0", "0",
                    "%">>

\* C9: the timestamp line of a formatted Quote is the current moment in
\* UTC on every host, and the text for an absent Quote is the constant
\* failure notice.
C9_TimestampIsUtc ==
  pc = "publish" =>
     IF price_data = None THEN message = FailureNotice
     ELSE message[8] = <<"CLOCK", " ", "Updated: ">> \o Strftime(now)

\* C10: exactly one suspension separates the starts of two consecutive
\* iterations: the interval when the body completed (also after a failed
\* fetch or a failed post), the retry delay when an exception escaped.
C10_OneSuspensionBetweenIterations ==
  (iter >= 2 /\ pc \notin {"stopped", "crashed"}) =>
     /\ prevOutcome \in {"completed", "raised"}
     /\ prevOutcome = "completed" => prevGap = <<INTERVAL>>
     /\ prevOutcome = "raised" => prevGap = <<RetryDelay>>

C10_Witness ==
  /\ pc = "format"
  /\ iter = 2
  /\ prevOutcome = "completed"
  /\ sent = FailureNotice
  /\ ~sendOk
  /\ prevGap = <<INTERVAL>>
====
